---- MODULE Spec2Model ----
(***************************************************************************)
(* melodymetrics: the DataAnalysis table store, its column transforms and  *)
(* its quality scans (src/melodymetrics/dataanalysis/data_analysis.py).    *)
(*                                                                         *)
(* Encoding.  A cell is a sequence: <<>> is a null cell (NaN / None),      *)
(* <<v>> holds the value v.  Integers are themselves; the [0,1] float      *)
(* columns are held in tenths (0.0 -> 0, 1.0 -> 10, 1.1 -> 11); a text of  *)
(* the genre column is the sequence of its characters.  A row is a         *)
(* function from column names to cells.  A DataFrame is a record of its    *)
(* column names, its index labels and its rows; the attribute value None   *)
(* is the record NoneDf.                                                   *)
(***************************************************************************)
EXTENDS Integers, Sequences, FiniteSets, TLC

\* Largest number of data rows of a CSV source file.
MaxRows == 2

\* Largest number of rows of a table the cleaning is applied to directly.
MaxCleanRows == 3

\* Largest number of rows of a table the column transforms are applied to directly.
MaxTransformRows == 2

\* Largest number of rows of a table the scans are applied to directly.
MaxScanRows == 2

\* Largest number of rows of a table the cleaning and the transforms are applied to
\* one after the other.
MaxPipelineRows == 2

\* dt.date.today().year / dt.datetime.now().year
CurrentYear == 2026

----------------------------------------------------------------------------
(* Sequences helpers *)

Range(s) == {s[i] : i \in 1..Len(s)}

RECURSIVE SelectPos(_, _, _)
\* the subsequence of s at the positions of P, in order, from position i on
SelectPos(s, P, i) ==
    IF i > Len(s) THEN <<>>
    ELSE IF i \in P THEN <<s[i]>> \o SelectPos(s, P, i + 1)
    ELSE SelectPos(s, P, i + 1)

RECURSIVE Flatten(_)
Flatten(ss) == IF ss = <<>> THEN <<>> ELSE Head(ss) \o Flatten(Tail(ss))

\* pandas RangeIndex(n): the labels 0 .. n-1
RangeIndex(n) == [i \in 1..n |-> i - 1]

----------------------------------------------------------------------------
(* Cells, rows, frames *)

Null == <<>>
IsNull(cell) == cell = Null
Val(cell) == cell[1]

\* elementwise comparisons of a column with a scalar: a null cell compares False
CellLt(cell, k) == ~IsNull(cell) /\ Val(cell) < k
CellGt(cell, k) == ~IsNull(cell) /\ Val(cell) > k
CellEq(cell, v) == ~IsNull(cell) /\ Val(cell) = v

NoneDf == [loaded |-> FALSE, columns |-> <<>>, index |-> <<>>, data |-> <<>>]

DataFrame(columns, index, data) ==
    [loaded |-> TRUE, columns |-> columns, index |-> index, data |-> data]

NRows(t) == Len(t.data)
HasColumn(t, c) == c \in Range(t.columns)

\* df[mask]: the rows at the positions P, with their index labels
Take(t, P) == DataFrame(t.columns, SelectPos(t.index, P, 1), SelectPos(t.data, P, 1))

\* df.head(n)
HeadRows(t, n) == Take(t, 1..n)

\* columns_to_check of clean_outliers_and_duplicates
columns_to_check ==
    <<"danceability", "energy", "speechiness", "acousticness",
      "instrumentalness", "liveness", "valence">>

\* the header of the dataset file (its columns that this module examines)
CsvHeader ==
    <<"song", "duration_ms", "year", "popularity", "danceability", "energy",
      "speechiness", "acousticness", "instrumentalness", "liveness", "valence",
      "genre">>

\* the text "set()"
SetText == <<"s", "e", "t", "(", ")">>

\* a row of the file: the float columns are 0.5 unless fl overrides them
MkRow(song, dur, year, pop, fl, genre) ==
    [c \in Range(CsvHeader) |->
        CASE c = "song" -> song
          [] c = "duration_ms" -> dur
          [] c = "year" -> year
          [] c = "popularity" -> pop
          [] c = "genre" -> genre
          [] OTHER -> IF c \in DOMAIN fl THEN fl[c] ELSE <<5>>]

NoFl == [c \in {} |-> <<>>]

\* in range everywhere, two genres
RowGood == MkRow(<<"A">>, <<210000>>, <<2000>>, <<50>>, NoFl, << <<"P", ",", " ", "D">> >>)
\* every lower boundary value, one genre
RowLow ==
    MkRow(<<"B">>, <<200000>>, <<1900>>, <<0>>,
          [c \in Range(columns_to_check) |-> <<0>>], << <<"P">> >>)
\* every upper boundary value, three genres
RowHigh ==
    MkRow(<<"C">>, <<214000>>, <<CurrentYear>>, <<100>>,
          [c \in Range(columns_to_check) |-> <<10>>],
          << <<"P", ",", " ", "R", ",", " ", "I">> >>)
RowPopNeg == MkRow(<<"D">>, <<210000>>, <<2000>>, <<-5>>, NoFl, << <<"P">> >>)
RowPopBig == MkRow(<<"E">>, <<210000>>, <<2000>>, <<105>>, NoFl, << <<"P">> >>)
RowYearOld == MkRow(<<"F">>, <<210000>>, <<1899>>, <<50>>, NoFl, << <<"P">> >>)
RowYearNew == MkRow(<<"G">>, <<210000>>, <<CurrentYear + 1>>, <<50>>, NoFl, << <<"P">> >>)
\* two checks at once: popularity and energy
RowEnergyPop == MkRow(<<"H">>, <<210000>>, <<2000>>, <<101>>, "energy" :> <<11>>, << <<"P">> >>)
RowValence == MkRow(<<"I">>, <<210000>>, <<2000>>, <<50>>, "valence" :> <<-1>>, << <<"P">> >>)
RowSetGenre == MkRow(<<"J">>, <<210000>>, <<2000>>, <<50>>, NoFl, <<SetText>>)
\* null cells in a checked column and in a free column
RowNull == MkRow(Null, <<210000>>, <<2000>>, Null, "liveness" :> Null, << <<"P">> >>)

\* every [0,1] column out of range, below and above in turn
RowUnitsOut ==
    MkRow(<<"K">>, <<210000>>, <<2000>>, <<50>>,
          [c \in Range(columns_to_check) |->
              IF c \in {"danceability", "speechiness", "instrumentalness", "valence"}
              THEN <<11>> ELSE <<-1>>],
          << <<"P">> >>)
\* a duration whose minutes are a tie between two tenths (0.25), a comma with no
\* space after it
RowTieEven == MkRow(<<"L">>, <<15000>>, <<2010>>, <<50>>, NoFl, << <<"P", ",", "D">> >>)
\* a duration whose minutes are a tie that is no binary fraction (3.55), a
\* separator with nothing after it
RowTieOdd == MkRow(<<"M">>, <<213000>>, <<1999>>, <<50>>, NoFl, << <<"P", ",", " ">> >>)
\* no duration and no year
RowNoYear == MkRow(<<"N">>, Null, Null, <<50>>, NoFl, << <<"P">> >>)

\* the rows the small sources are made of
SmallPool == {RowGood, RowPopBig, RowSetGenre}

\* the rows the cleaning is tried on
CleanPool ==
    {RowGood, RowLow, RowHigh, RowPopNeg, RowPopBig, RowYearOld, RowYearNew,
     RowEnergyPop, RowValence, RowSetGenre, RowNull, RowUnitsOut}

\* RowGood with a duration that is another number of milliseconds and the same
\* tenth of a minute (3.5)
RowGoodLonger ==
    MkRow(<<"A">>, <<211000>>, <<2000>>, <<50>>, NoFl, << <<"P", ",", " ", "D">> >>)
\* a genre text that begins with "set()" and goes on: "set(), D"
RowSetFirst ==
    MkRow(<<"O">>, <<210000>>, <<2000>>, <<50>>, NoFl, <<SetText \o <<",", " ", "D">> >>)

\* the rows the cleaning and the transforms are tried on together
PipelinePool ==
    {RowGood, RowGoodLonger, RowSetFirst, RowYearOld, RowNoYear, RowLow, RowHigh}

\* the rows the scans are tried on
ScanPool == {RowGood, RowLow, RowHigh, RowNull, RowNoYear}

\* the rows the column transforms are tried on
TransformPool == {RowGood, RowLow, RowHigh, RowTieEven, RowTieOdd, RowNoYear}

\* all sequences over S of length 0 .. n
SeqsUpTo(S, n) == UNION {[1..k -> S] : k \in 0..n}

\* pd.read_csv: the header gives the columns, the rows get a RangeIndex
read_csv(rows) == DataFrame(CsvHeader, RangeIndex(Len(rows)), rows)

----------------------------------------------------------------------------
(* clean_outliers_and_duplicates *)

Positions(t) == 1..NRows(t)

\* mutant of UnitOutlierPos: only the values above 1 are looked for
UnitOutlierPosAboveOnly(t, column) ==
    {i \in Positions(t) : CellGt(t.data[i][column], 10)}

\* (df[column] < 0) | (df[column] > 1)
UnitOutlierPos(t, column) ==
    {i \in Positions(t) : CellLt(t.data[i][column], 0) \/ CellGt(t.data[i][column], 10)}

\* mutant of YearOutlierPos: the bounds compared with >= and <=
YearOutlierPosInclusive(t) ==
    {i \in Positions(t) :
        ~IsNull(t.data[i]["year"])
            /\ (Val(t.data[i]["year"]) >= CurrentYear \/ Val(t.data[i]["year"]) <= 1900)}

\* mutant of YearOutlierPos: only the years after the current one are looked for
YearOutlierPosFutureOnly(t) ==
    {i \in Positions(t) : CellGt(t.data[i]["year"], CurrentYear)}

\* (df["year"] > today().year) | (df["year"] < 1900)
YearOutlierPos(t) ==
    {i \in Positions(t) :
        CellGt(t.data[i]["year"], CurrentYear) \/ CellLt(t.data[i]["year"], 1900)}

\* mutant of PopularityOutlierPos: the bounds compared with >= and <=
PopularityOutlierPosInclusive(t) ==
    {i \in Positions(t) :
        ~IsNull(t.data[i]["popularity"])
            /\ (Val(t.data[i]["popularity"]) >= 100 \/ Val(t.data[i]["popularity"]) <= 0)}

\* (df["popularity"] > 100) | (df["popularity"] < 0)
PopularityOutlierPos(t) ==
    {i \in Positions(t) :
        CellGt(t.data[i]["popularity"], 100) \/ CellLt(t.data[i]["popularity"], 0)}

\* df["genre"] == "set()"
GenreOutlierPos(t) == {i \in Positions(t) : CellEq(t.data[i]["genre"], SetText)}

\* df.duplicated(): a row equal, in every column, to a row before it
DuplicatedPos(t) == {i \in Positions(t) : \E j \in 1..(i - 1) : t.data[j] = t.data[i]}

\* the keys of the outliers dictionary, in the order they are filled
OutlierKeys == columns_to_check \o <<"year", "popularity", "genre">>

\* the outliers dictionary: for each checked column, the frame of its outlier rows
Outliers(t) ==
    [c \in Range(OutlierKeys) |->
        CASE c = "year" -> Take(t, YearOutlierPos(t))
          [] c = "popularity" -> Take(t, PopularityOutlierPos(t))
          [] c = "genre" -> Take(t, GenreOutlierPos(t))
          [] OTHER -> Take(t, UnitOutlierPos(t, c))]

\* duplicate_rows
DuplicateRows(t) == Take(t, DuplicatedPos(t))

\* all_outliers_and_duplicates: the non-empty frames, in the order they are appended
AllOutliersAndDuplicates(t) ==
    LET frames == [k \in 1..Len(OutlierKeys) |-> Outliers(t)[OutlierKeys[k]]]
                    \o <<DuplicateRows(t)>>
    IN  SelectPos(frames, {k \in 1..Len(frames) : NRows(frames[k]) > 0}, 1)

\* pd.concat(frames, ignore_index=False)
Concat(t, frames) ==
    DataFrame(t.columns,
              Flatten([k \in 1..Len(frames) |-> frames[k].index]),
              Flatten([k \in 1..Len(frames) |-> frames[k].data]))

\* mutant of Drop: only the rows under the first of the labels go
DropFirstLabel(t, labels) ==
    Take(t, {i \in Positions(t) :
                labels = {} \/ t.index[i] # (CHOOSE l \in labels : \A m \in labels : l <= m)})

\* df.drop(labels): every row whose index label is one of labels goes
Drop(t, labels) == Take(t, {i \in Positions(t) : t.index[i] \notin labels})

\* df.reset_index(drop=True)
ResetIndex(t) == DataFrame(t.columns, RangeIndex(NRows(t)), t.data)

NothingFoundText == "No outliers or duplicates detected in any of the columns."

\* the frame returned when nothing was found
NothingFound ==
    DataFrame(<<NothingFoundText>>, <<0>>, <<(NothingFoundText :> <<NothingFoundText>>)>>)

\* mutant of CleanedTable: a table left without rows is discarded
CleanedTableNoneWhenEmpty(t) ==
    LET frames == AllOutliersAndDuplicates(t)
        kept == IF frames # <<>>
                THEN ResetIndex(Drop(t, Range(Concat(t, frames).index)))
                ELSE t
    IN  IF NRows(kept) = 0 THEN NoneDf ELSE kept

\* the table after the call
CleanedTable(t) ==
    LET frames == AllOutliersAndDuplicates(t)
    IN  IF frames # <<>>
        THEN ResetIndex(Drop(t, Range(Concat(t, frames).index)))
        ELSE t

\* mutant of CleanReport: a frame without rows when nothing was found
CleanReportEmptyWhenNone(t) ==
    LET frames == AllOutliersAndDuplicates(t)
    IN  IF frames # <<>> THEN Concat(t, frames) ELSE Take(t, {})

\* the frame the call returns
CleanReport(t) ==
    LET frames == AllOutliersAndDuplicates(t)
    IN  IF frames # <<>> THEN Concat(t, frames) ELSE NothingFound

----------------------------------------------------------------------------
(* Column transforms *)

\* the duration values (milliseconds), among 3000, 9000, ... 45000 and 207000,
\* 213000, whose exact quotient by 60000 ends in 5 hundredths, is no binary
\* fraction, and lies below the double that stands for it: these round up
TieRoundsUp == {3000, 27000, 33000, 39000, 207000}

\* mutant of MinutesTenths: the digits after the first decimal are cut off
MinutesTenthsTruncated(m) == m \div 6000

\* float(f"{m / 60000:.1f}"), in tenths of a minute; a tie that is a binary
\* fraction (0.25, 0.75, ...) goes to the even tenth
MinutesTenths(m) ==
    LET q == m \div 6000
        r == m % 6000
    IN  IF r < 3000 THEN q
        ELSE IF r > 3000 THEN q + 1
        ELSE IF (2 * q + 1) % 5 = 0 THEN (IF q % 2 = 0 THEN q ELSE q + 1)
        ELSE IF m \in TieRoundsUp THEN q + 1 ELSE q

\* rename(columns={old: new}) on the column list
RenameColumn(columns, old, new) ==
    [k \in 1..Len(columns) |-> IF columns[k] = old THEN new ELSE columns[k]]

\* the row with the column old rewritten by cell and renamed to new
RenamedRow(row, old, new, cell) ==
    [c \in (DOMAIN row \ {old}) \cup {new} |-> IF c = new THEN cell ELSE row[c]]

\* the table after convert_duration_to_minutes (the column duration_ms exists)
ConvertedTable(t) ==
    DataFrame(RenameColumn(t.columns, "duration_ms", "duration_minutes"),
              t.index,
              [i \in Positions(t) |->
                  LET cell == t.data[i]["duration_ms"]
                  IN  RenamedRow(t.data[i], "duration_ms", "duration_minutes",
                                 IF IsNull(cell) THEN Null
                                 ELSE <<MinutesTenths(Val(cell))>>)])

\* the first position p with text[p] = "," and text[p+1] = " ", or 0
RECURSIVE FindSep(_, _)
FindSep(text, p) ==
    IF p + 1 > Len(text) THEN 0
    ELSE IF text[p] = "," /\ text[p + 1] = " " THEN p
    ELSE FindSep(text, p + 1)

\* mutant of split_genre: without a separator the subgenre is the empty text
split_genre_empty_subgenre(text) ==
    LET p == FindSep(text, 1)
    IN  IF p > 0
        THEN << <<SubSeq(text, 1, p - 1)>>, <<SubSeq(text, p + 2, Len(text))>> >>
        ELSE << <<text>>, << <<>> >> >>

\* split_genre: row.split(sep=", ", maxsplit=1); the pair of cells (genre, subgenre)
split_genre(text) ==
    LET p == FindSep(text, 1)
    IN  IF p > 0
        THEN << <<SubSeq(text, 1, p - 1)>>, <<SubSeq(text, p + 2, Len(text))>> >>
        ELSE << <<text>>, Null >>

\* the table after separate_genres wrote the columns genre and subgenres
SeparatedTable(t) ==
    DataFrame(t.columns \o <<"subgenres">>,
              t.index,
              [i \in Positions(t) |->
                  LET parts == split_genre(Val(t.data[i]["genre"]))
                  IN  [c \in DOMAIN t.data[i] \cup {"subgenres"} |->
                          IF c = "genre" THEN parts[1]
                          ELSE IF c = "subgenres" THEN parts[2]
                          ELSE t.data[i][c]]])

\* mutant of get_years_ago: the difference taken the other way round
get_years_ago_reversed(row) ==
    IF IsNull(row["year"]) THEN Null ELSE <<Val(row["year"]) - CurrentYear>>

\* get_years_ago: current_year - row["year"]
get_years_ago(row) ==
    IF IsNull(row["year"]) THEN Null ELSE <<CurrentYear - Val(row["year"])>>

\* the table after add_years_ago_column assigned the column years_ago
YearsAgoTable(t) ==
    DataFrame(IF HasColumn(t, "years_ago") THEN t.columns ELSE t.columns \o <<"years_ago">>,
              t.index,
              [i \in Positions(t) |->
                  [c \in DOMAIN t.data[i] \cup {"years_ago"} |->
                      IF c = "years_ago" THEN get_years_ago(t.data[i]) ELSE t.data[i][c]]])

----------------------------------------------------------------------------
(* Scans *)

\* mutant of NumNullValues: the rows with a null cell are counted
NumNullValuesRows(t) ==
    Cardinality({i \in Positions(t) : \E c \in Range(t.columns) : IsNull(t.data[i][c])})

\* df.isnull().values.sum()
NumNullValues(t) ==
    Cardinality({<<i, c>> \in Positions(t) \X Range(t.columns) : IsNull(t.data[i][c])})

\* df.isnull().any()
AnyNullValues(t) ==
    [c \in Range(t.columns) |-> \E i \in Positions(t) : IsNull(t.data[i][c])]

\* len(df[column].unique()) for every column
NumUniqueValues(t) ==
    [c \in Range(t.columns) |-> Cardinality({t.data[i][c] : i \in Positions(t)})]

\* df.describe(include="all"): the count row (non-null cells of each column)
DescribeCount(t) ==
    [c \in Range(t.columns) |->
        Cardinality({i \in Positions(t) : ~IsNull(t.data[i][c])})]

\* the non-null values of the year column
YearValues(t) == {Val(t.data[i]["year"]) : i \in {j \in Positions(t) : ~IsNull(t.data[j]["year"])}}

\* mutant of DatasetDuration: the difference taken the other way round
DatasetDurationReversed(t) ==
    LET ys == YearValues(t)
    IN  IF ys = {} THEN [start |-> Null, end |-> Null, duration |-> Null]
        ELSE LET lo == CHOOSE y \in ys : \A z \in ys : y <= z
                 hi == CHOOSE y \in ys : \A z \in ys : y >= z
             IN  [start |-> <<lo>>, end |-> <<hi>>, duration |-> <<lo - hi>>]

\* df["year"].min() / .max() / the difference; null when there is no value
DatasetDuration(t) ==
    LET ys == YearValues(t)
    IN  IF ys = {} THEN [start |-> Null, end |-> Null, duration |-> Null]
        ELSE LET lo == CHOOSE y \in ys : \A z \in ys : y <= z
                 hi == CHOOSE y \in ys : \A z \in ys : y >= z
             IN  [start |-> <<lo>>, end |-> <<hi>>, duration |-> <<hi - lo>>]

\* df["year"].astype(int) fails on a null cell
YearCastFails(t) == \E i \in Positions(t) : IsNull(t.data[i]["year"])

----------------------------------------------------------------------------
(* The state *)

VARIABLES
    _df,        \* DataAnalysis._df: NoneDf or a DataFrame
    csv_path,   \* DataAnalysis.csv_path: "None" or the path found
    csv_file,   \* the project directory: <<>> (no .csv file) or <<rows>>, the file
    last,       \* the outcome of the last call: what it raised, printed, returned
    window      \* the MainWindow: its attributes da and df, the frame in its table
                \* view, whether a plot window was made

vars == <<_df, csv_path, csv_file, last, window>>

NoRet == [kind |-> "None"]
RetFrame(t) == [kind |-> "DataFrame", frame |-> t]
RetStr(s) == [kind |-> "str", text |-> s]
RetValue(v) == [kind |-> "value", value |-> v]
RetFigure == [kind |-> "Figure"]

NoOutliers == [c \in {} |-> NoneDf]
NoArg == [type |-> "None", value |-> NoneDf]

\* what a call found when it began: whether a table was there, its shape
Before(t) == [loaded |-> t.loaded, rows |-> NRows(t), columns |-> t.columns]

\* the outcome of a call that began with the table t; outliers is the dictionary
\* clean_outliers_and_duplicates prints, arg the value handed to the df setter
OutcomeFrom(t, op, raised, printed, ret) ==
    [op |-> op, raised |-> raised, printed |-> printed, ret |-> ret,
     outliers |-> NoOutliers, arg |-> NoArg, before |-> Before(t)]

Outcome(op, raised, printed, ret) == OutcomeFrom(_df, op, raised, printed, ret)

NotLoadedMessage == "Error: No dataset loaded yet. Please load the dataset first"
\* what the df getter prints: the guard's message, then the exception's text
\* (printed by its __str__ and again by the handler)
GetterMessages ==
    <<NotLoadedMessage, "No dataset loaded yet. Please load the dataset first",
      NotLoadedMessage>>
ReplacedMessage == "DataFrame has been replaced"
RemovedMessage == "DataFrame attribute has been removed."
FoundMessage == "Found dataset csv at spotify_top_hits_2020.csv"
LoadErrorText == "Error: DatasetFileNotFoundException"
NoCsvMessage == "No csv file found in melodymetrics folder"
SetterMessage == "Error: Can't set a value that is not a DataFrame."
PathFound == "spotify_top_hits_2020.csv"

\* the file KaggleDownload.dataset_download leaves in the project directory
KaggleRows == <<RowGood, RowHigh>>

\* the source files of the project directory
Sources == SeqsUpTo(SmallPool, MaxRows)

\* frames a caller hands to the df setter: a concatenation of two one-row frames
\* (repeated index labels), a filtered frame (labels not from 0), an empty frame
FrameConcat == DataFrame(CsvHeader, <<0, 0>>, <<RowPopBig, RowGood>>)
FrameFiltered == DataFrame(CsvHeader, <<5, 7>>, <<RowGood, RowGood>>)
FrameEmpty == DataFrame(CsvHeader, <<>>, <<>>)
\* a one-row frame concatenated with itself: equal rows under the same label
FrameDoubled == DataFrame(CsvHeader, <<0, 0>>, <<RowGood, RowGood>>)

SetterArgs ==
    {[type |-> "DataFrame", value |-> t] :
        t \in {FrameConcat, FrameFiltered, FrameEmpty, FrameDoubled}}
        \cup {[type |-> "NoneType", value |-> NoneDf], [type |-> "str", value |-> NoneDf]}

\* the value of the df getter: the placeholder frame when nothing is loaded
NoDataframeText == "No dataframe loaded yet."
NoDataframeFrame ==
    DataFrame(<<NoDataframeText>>, <<0>>, <<(NoDataframeText :> <<NoDataframeText>>)>>)

\* MainWindow.df before a table was loaded
NoDataframeLoadedText == "No dataframe loaded."
NoDataframeLoadedFrame ==
    DataFrame(<<NoDataframeLoadedText>>, <<0>>,
              <<(NoDataframeLoadedText :> <<NoDataframeLoadedText>>)>>)

\* MainWindow.__init__: no DataAnalysis object, the placeholder frame, shown in
\* the table view by create_widgets; no plot window.  The specifications whose
\* calls are made on the DataAnalysis object itself leave the window as it is.
MainWindowInit ==
    [da |-> FALSE, df |-> NoDataframeLoadedFrame, view |-> NoDataframeLoadedFrame,
     plot_window |-> FALSE]

\* check_if_dataframe_loaded raises
NotLoaded == ~_df.loaded

\* mutant of RaiseNotLoaded: the guard prints its message and does not raise
RaiseNotLoadedSwallowed(op) ==
    /\ NotLoaded
    /\ last' = Outcome(op, "none", <<NotLoadedMessage>>, NoRet)
    /\ UNCHANGED <<_df, csv_path, csv_file>>

\* the call op stopped by check_if_dataframe_loaded
RaiseNotLoaded(op) ==
    /\ NotLoaded
    /\ last' = Outcome(op, "DatasetNotLoadedException", <<NotLoadedMessage>>, NoRet)
    /\ UNCHANGED <<_df, csv_path, csv_file>>

\* mutant of Scan: the rows with a null cell are dropped from the table
ScanDropsNullRows(op, ret) ==
    /\ ~NotLoaded
    /\ last' = Outcome(op, "none", <<>>, ret)
    /\ _df' = Take(_df, {i \in Positions(_df) :
                            \A c \in Range(_df.columns) : ~IsNull(_df.data[i][c])})
    /\ UNCHANGED <<csv_path, csv_file>>

\* the call op of a scan: the guard, then a value computed from the table
Scan(op, ret) ==
    /\ ~NotLoaded
    /\ last' = Outcome(op, "none", <<>>, ret)
    /\ UNCHANGED <<_df, csv_path, csv_file>>

----------------------------------------------------------------------------
(* The table store *)

\* __init__(load_dataset): load_csv_dataset runs when load_dataset is True
Init ==
    /\ csv_file \in {<<>>} \cup {<<rows>> : rows \in Sources}
    /\ \E load_dataset \in BOOLEAN :
          IF load_dataset /\ csv_file # <<>>
          THEN /\ _df = read_csv(csv_file[1])
               /\ csv_path = PathFound
               /\ last = OutcomeFrom(NoneDf, "__init__", "none", <<>>, NoRet)
          ELSE /\ _df = NoneDf
               /\ csv_path = "None"
               /\ last = OutcomeFrom(NoneDf, "__init__", "none",
                                     IF load_dataset THEN <<NoCsvMessage>> ELSE <<>>, NoRet)
    /\ window = MainWindowInit

\* the public method check_if_dataframe_loaded
check_if_dataframe_loaded ==
    \/ RaiseNotLoaded("check_if_dataframe_loaded")
    \/ Scan("check_if_dataframe_loaded", NoRet)

\* mutant of df_getter: the exception of the guard is not caught
df_getter_propagates ==
    /\ last' = IF NotLoaded
               THEN Outcome("df_getter", "DatasetNotLoadedException", <<NotLoadedMessage>>,
                            NoRet)
               ELSE Outcome("df_getter", "none", <<>>, RetFrame(_df))
    /\ UNCHANGED <<_df, csv_path, csv_file>>

\* df (getter): the exception of the guard is caught and printed
df_getter ==
    /\ last' = IF NotLoaded
               THEN Outcome("df_getter", "none", GetterMessages,
                            RetFrame(NoDataframeFrame))
               ELSE Outcome("df_getter", "none", <<>>, RetFrame(_df))
    /\ UNCHANGED <<_df, csv_path, csv_file>>

\* mutant of SetterTable: the value is assigned without the isinstance test
SetterTableAssignsAnything(old, new_df) == new_df.value

\* the table after the df setter ran to its end with new_df
SetterTable(old, new_df) == IF new_df.type = "DataFrame" THEN new_df.value ELSE old

\* df (setter): the message formats self._df.head(2) before the assignment
df_setter ==
    \E new_df \in SetterArgs :
        IF new_df.type = "DataFrame" /\ NotLoaded
        THEN /\ last' = [Outcome("df_setter", "AttributeError", <<>>, NoRet)
                           EXCEPT !.arg = new_df]
             /\ UNCHANGED <<_df, csv_path, csv_file>>
        ELSE /\ _df' = SetterTable(_df, new_df)
             /\ last' = [Outcome("df_setter", "none",
                                 IF new_df.type = "DataFrame" THEN <<ReplacedMessage>>
                                 ELSE <<SetterMessage>>,
                                 NoRet)
                           EXCEPT !.arg = new_df]
             /\ UNCHANGED <<csv_path, csv_file>>

\* mutant of DeletedTable: the rows are dropped and the frame is kept
DeletedTableDropsRows(old) ==
    IF old.loaded THEN DataFrame(old.columns, <<>>, <<>>) ELSE NoneDf

\* the table after the df deleter
DeletedTable(old) == NoneDf

\* df (deleter)
df_deleter ==
    /\ _df' = DeletedTable(_df)
    /\ last' = Outcome("df_deleter", "none", <<RemovedMessage>>, NoRet)
    /\ UNCHANGED <<csv_path, csv_file>>

\* __str__
str_ ==
    \/ RaiseNotLoaded("__str__")
    \/ Scan("__str__", RetFrame(HeadRows(_df, 5)))

\* find_dataset_csv: the first .csv file of the walk, or DatasetFileNotFoundException
find_dataset_csv ==
    /\ IF csv_file # <<>>
       THEN /\ csv_path' = PathFound
            /\ last' = Outcome("find_dataset_csv", "none", <<FoundMessage>>, RetStr(PathFound))
       ELSE /\ csv_path' = csv_path
            /\ last' = Outcome("find_dataset_csv", "DatasetFileNotFoundException",
                               <<NoCsvMessage>>, NoRet)
    /\ UNCHANGED <<_df, csv_file>>

\* mutant of LoadedTable: the rows read are appended to the table that was there
LoadedTableAppends(old, rows) ==
    IF old.loaded
    THEN DataFrame(old.columns, RangeIndex(NRows(old) + Len(rows)),
                   old.data \o rows)
    ELSE read_csv(rows)

\* the table after load_csv_dataset found the file with these rows
LoadedTable(old, rows) == read_csv(rows)

\* mutant of load_csv_dataset: DatasetFileNotFoundException is not caught
load_csv_dataset_propagates ==
    /\ IF csv_file # <<>>
       THEN /\ csv_path' = PathFound
            /\ _df' = read_csv(csv_file[1])
            /\ last' = Outcome("load_csv_dataset", "none", <<FoundMessage>>,
                               RetFrame(HeadRows(read_csv(csv_file[1]), 5)))
       ELSE /\ UNCHANGED <<csv_path, _df>>
            /\ last' = Outcome("load_csv_dataset", "DatasetFileNotFoundException",
                               <<NoCsvMessage>>, NoRet)
    /\ UNCHANGED csv_file

\* mutant of load_csv_dataset: a load that finds no file discards the table
load_csv_dataset_clears ==
    /\ IF csv_file # <<>>
       THEN /\ csv_path' = PathFound
            /\ _df' = LoadedTable(_df, csv_file[1])
            /\ last' = Outcome("load_csv_dataset", "none", <<FoundMessage>>,
                               RetFrame(HeadRows(LoadedTable(_df, csv_file[1]), 5)))
       ELSE /\ csv_path' = csv_path
            /\ _df' = NoneDf
            /\ last' = Outcome("load_csv_dataset", "none", <<NoCsvMessage, LoadErrorText>>,
                               RetStr(LoadErrorText))
    /\ UNCHANGED csv_file

\* load_csv_dataset: DatasetFileNotFoundException is caught, printed and returned as text
load_csv_dataset ==
    /\ IF csv_file # <<>>
       THEN /\ csv_path' = PathFound
            /\ _df' = LoadedTable(_df, csv_file[1])
            /\ last' = Outcome("load_csv_dataset", "none", <<FoundMessage>>,
                               RetFrame(HeadRows(LoadedTable(_df, csv_file[1]), 5)))
       ELSE /\ UNCHANGED <<csv_path, _df>>
            /\ last' = Outcome("load_csv_dataset", "none", <<NoCsvMessage, LoadErrorText>>,
                               RetStr(LoadErrorText))
    /\ UNCHANGED csv_file

\* explanatory_dataframe: the hardcoded frame (the Attribute column of its 18 rows)
ExplainedAttributes ==
    <<"artist", "song", "duration_ms", "explicit", "year", "popularity", "danceability",
      "energy", "key", "loudness", "mode", "speechiness", "acousticness",
      "instrumentalness", "liveness", "valence", "tempo", "genre">>

ExplanatoryFrame ==
    DataFrame(<<"Attribute">>, RangeIndex(Len(ExplainedAttributes)),
              [k \in 1..Len(ExplainedAttributes) |-> ("Attribute" :> <<ExplainedAttributes[k]>>)])

\* explain_dataframe_columns: a static method, no guard
explain_dataframe_columns ==
    /\ last' = Outcome("explain_dataframe_columns", "none", <<>>, RetFrame(ExplanatoryFrame))
    /\ UNCHANGED <<_df, csv_path, csv_file>>

----------------------------------------------------------------------------
(* Scans *)

show_dataframe_info ==
    \/ RaiseNotLoaded("show_dataframe_info")
    \/ Scan("show_dataframe_info",
            RetValue([Rows |-> NRows(_df), Columns |-> Len(_df.columns)]))

summarize_dataframe_statistics ==
    \/ RaiseNotLoaded("summarize_dataframe_statistics")
    \/ Scan("summarize_dataframe_statistics", RetValue(DescribeCount(_df)))

check_num_null_values ==
    \/ RaiseNotLoaded("check_num_null_values")
    \/ Scan("check_num_null_values", RetValue(NumNullValues(_df)))

check_any_null_values ==
    \/ RaiseNotLoaded("check_any_null_values")
    \/ Scan("check_any_null_values", RetValue(AnyNullValues(_df)))

check_num_unique_values ==
    \/ RaiseNotLoaded("check_num_unique_values")
    \/ Scan("check_num_unique_values", RetValue(NumUniqueValues(_df)))

find_dataset_duration ==
    \/ RaiseNotLoaded("find_dataset_duration")
    \/ Scan("find_dataset_duration", RetValue(DatasetDuration(_df)))

----------------------------------------------------------------------------
(* Cleaning and transforms *)

\* mutant of clean_outliers_and_duplicates: the rows found are reported and not removed
clean_outliers_and_duplicates_reports_only ==
    \/ RaiseNotLoaded("clean_outliers_and_duplicates")
    \/ /\ ~NotLoaded
       /\ last' = [Outcome("clean_outliers_and_duplicates", "none", <<>>,
                           RetFrame(CleanReport(_df)))
                     EXCEPT !.outliers = Outliers(_df)]
       /\ UNCHANGED <<_df, csv_path, csv_file>>

\* clean_outliers_and_duplicates
clean_outliers_and_duplicates ==
    \/ RaiseNotLoaded("clean_outliers_and_duplicates")
    \/ /\ ~NotLoaded
       /\ _df' = CleanedTable(_df)
       /\ last' = [Outcome("clean_outliers_and_duplicates", "none", <<>>,
                           RetFrame(CleanReport(_df)))
                     EXCEPT !.outliers = Outliers(_df)]
       /\ UNCHANGED <<csv_path, csv_file>>

\* a call that fails after the guard and leaves the table as it was
Fails(op, error) ==
    /\ last' = Outcome(op, error, <<>>, NoRet)
    /\ UNCHANGED <<_df, csv_path, csv_file>>

\* a transform that ran to its end and left the table t
Transformed(op, t) ==
    /\ _df' = t
    /\ last' = Outcome(op, "none", <<>>, NoRet)
    /\ UNCHANGED <<csv_path, csv_file>>

\* add_years_ago_column.  On a frame without rows df.apply(..., axis=1) gives a
\* frame, not a column: the assignment then either fails (ValueError) or adds
\* the column, by the pandas version.
add_years_ago_column ==
    \/ RaiseNotLoaded("add_years_ago_column")
    \/ /\ ~NotLoaded
       /\ \/ Transformed("add_years_ago_column", YearsAgoTable(_df))
          \/ /\ NRows(_df) = 0
             /\ Fails("add_years_ago_column", "ValueError")

\* mutant of convert_duration_to_minutes: a table already converted is divided again
convert_duration_to_minutes_redivides ==
    \/ RaiseNotLoaded("convert_duration_to_minutes")
    \/ /\ ~NotLoaded
       /\ IF HasColumn(_df, "duration_ms")
          THEN Transformed("convert_duration_to_minutes", ConvertedTable(_df))
          ELSE Transformed("convert_duration_to_minutes",
                           DataFrame(_df.columns, _df.index,
                                     [i \in Positions(_df) |->
                                         [_df.data[i] EXCEPT !["duration_minutes"] =
                                             IF IsNull(@) THEN Null ELSE <<0>>]]))

\* convert_duration_to_minutes: the column duration_ms is gone after the rename
convert_duration_to_minutes ==
    \/ RaiseNotLoaded("convert_duration_to_minutes")
    \/ /\ ~NotLoaded
       /\ IF HasColumn(_df, "duration_ms")
          THEN Transformed("convert_duration_to_minutes", ConvertedTable(_df))
          ELSE Fails("convert_duration_to_minutes", "KeyError")

\* a null genre cell is a float: it has no split
GenreSplitFails(t) == \E i \in Positions(t) : IsNull(t.data[i]["genre"])

\* the message of separate_genres when the column subgenres is there
AlreadySplitMessage == "Genres already split between genre and subgenre column. Nothing to do."

\* mutant of separate_genres: the split runs again when the column subgenres is there
separate_genres_splits_again ==
    \/ RaiseNotLoaded("separate_genres")
    \/ /\ ~NotLoaded
       /\ IF HasColumn(_df, "subgenres")
          THEN Transformed("separate_genres",
                           DataFrame(_df.columns, _df.index,
                                     [i \in Positions(_df) |->
                                         LET parts == split_genre(Val(_df.data[i]["genre"]))
                                         IN  [_df.data[i] EXCEPT !["genre"] = parts[1],
                                                                 !["subgenres"] = parts[2]]]))
          ELSE IF GenreSplitFails(_df)
          THEN Fails("separate_genres", "AttributeError")
          ELSE \/ Transformed("separate_genres", SeparatedTable(_df))
               \/ /\ NRows(_df) = 0
                  /\ Fails("separate_genres", "ValueError")

\* separate_genres.  On a frame without rows the two applies give nothing with
\* two columns: the assignment then either fails (ValueError) or adds the
\* column, by the pandas version.
separate_genres ==
    \/ RaiseNotLoaded("separate_genres")
    \/ /\ ~NotLoaded
       /\ IF HasColumn(_df, "subgenres")
          THEN /\ last' = Outcome("separate_genres", "none", <<AlreadySplitMessage>>, NoRet)
               /\ UNCHANGED <<_df, csv_path, csv_file>>
          ELSE IF GenreSplitFails(_df)
          THEN Fails("separate_genres", "AttributeError")
          ELSE \/ Transformed("separate_genres", SeparatedTable(_df))
               \/ /\ NRows(_df) = 0
                  /\ Fails("separate_genres", "ValueError")

----------------------------------------------------------------------------
(* Charts: only the guard and the write to the year column are modelled; the *)
(* chart itself is drawn or fails in the plotting library.                   *)

Chart(op) ==
    /\ ~NotLoaded
    /\ \E raised \in {"none", "ChartError"} :
          last' = Outcome(op, raised, <<>>, IF raised = "none" THEN RetFigure ELSE NoRet)
    /\ UNCHANGED <<_df, csv_path, csv_file>>

\* self._df['year'] = self._df['year'].astype(int), then the chart
ChartOnIntYears(op) ==
    /\ ~NotLoaded
    /\ IF YearCastFails(_df) THEN Fails(op, "ValueError") ELSE Chart(op)

plot_most_frequent_genres ==
    \/ RaiseNotLoaded("plot_most_frequent_genres")
    \/ Chart("plot_most_frequent_genres")

plot_most_frequent_genres_pie ==
    \/ RaiseNotLoaded("plot_most_frequent_genres_pie")
    \/ Chart("plot_most_frequent_genres_pie")

plot_top_genres_evolution ==
    \/ RaiseNotLoaded("plot_top_genres_evolution")
    \/ ChartOnIntYears("plot_top_genres_evolution")

plot_explicit_songs_evolution ==
    \/ RaiseNotLoaded("plot_explicit_songs_evolution")
    \/ ChartOnIntYears("plot_explicit_songs_evolution")

----------------------------------------------------------------------------
(* The project directory *)

\* KaggleDownload.dataset_download: the downloaded file replaces the old one, or
\* the download fails and nothing changes
dataset_download ==
    /\ \/ csv_file' = <<KaggleRows>>
       \/ csv_file' = csv_file
    /\ last' = Outcome("dataset_download", "none", <<>>, NoRet)
    /\ UNCHANGED <<_df, csv_path>>

\* the user removes the dataset file
RemoveCsv ==
    /\ csv_file # <<>>
    /\ csv_file' = <<>>
    /\ last' = Outcome("RemoveCsv", "none", <<>>, NoRet)
    /\ UNCHANGED <<_df, csv_path>>

----------------------------------------------------------------------------

Next ==
    \/ check_if_dataframe_loaded /\ UNCHANGED window
    \/ df_getter /\ UNCHANGED window
    \/ df_setter /\ UNCHANGED window
    \/ df_deleter /\ UNCHANGED window
    \/ str_ /\ UNCHANGED window
    \/ find_dataset_csv /\ UNCHANGED window
    \/ load_csv_dataset /\ UNCHANGED window
    \/ explain_dataframe_columns /\ UNCHANGED window
    \/ show_dataframe_info /\ UNCHANGED window
    \/ summarize_dataframe_statistics /\ UNCHANGED window
    \/ check_num_null_values /\ UNCHANGED window
    \/ check_any_null_values /\ UNCHANGED window
    \/ check_num_unique_values /\ UNCHANGED window
    \/ find_dataset_duration /\ UNCHANGED window
    \/ clean_outliers_and_duplicates /\ UNCHANGED window
    \/ add_years_ago_column /\ UNCHANGED window
    \/ convert_duration_to_minutes /\ UNCHANGED window
    \/ separate_genres /\ UNCHANGED window
    \/ plot_most_frequent_genres /\ UNCHANGED window
    \/ plot_most_frequent_genres_pie /\ UNCHANGED window
    \/ plot_top_genres_evolution /\ UNCHANGED window
    \/ plot_explicit_songs_evolution /\ UNCHANGED window
    \/ dataset_download /\ UNCHANGED window
    \/ RemoveCsv /\ UNCHANGED window

Spec == Init /\ [][Next]_vars

----------------------------------------------------------------------------
(* The main window: its buttons call the DataAnalysis object self.da and keep *)
(* a frame of their own, self.df, which button_see_actual_dataframe_action    *)
(* shows.  _df and csv_path are the attributes of self.da.  After            *)
(* load_dataframe_from_analysis self.df is the very object self.da._df; the   *)
(* calls that change that object in place are followed by a new               *)
(* load_dataframe_from_analysis, so self.df is held here by value.            *)

\* the permutations of 1 .. n
RowOrders(n) == {p \in [1..n -> 1..n] : \A i, j \in 1..n : p[i] = p[j] => i = j}

\* df.sort_values(by="popularity", ascending=False): the rows by falling
\* popularity, the null ones last; the order of rows with equal popularity is
\* not fixed by the sort (quicksort), so every such order is a result
SortValues(t) ==
    {DataFrame(t.columns, [k \in Positions(t) |-> t.index[p[k]]],
               [k \in Positions(t) |-> t.data[p[k]]]) :
        p \in {q \in RowOrders(NRows(t)) :
                 \A k \in 1..(NRows(t) - 1) :
                    LET a == t.data[q[k]]["popularity"]
                        b == t.data[q[k + 1]]["popularity"]
                    IN  IsNull(b) \/ (~IsNull(a) /\ Val(a) >= Val(b))}}

\* MainWindow.check_if_dataframe_loaded raises: self.da is no DataAnalysis
WindowRaises(op) ==
    /\ ~window.da
    /\ last' = Outcome(op, "DatasetNotLoadedException", <<>>, NoRet)
    /\ UNCHANGED <<_df, csv_path, csv_file, window>>

\* load_dataframe_from_analysis and update_dataframe_view after a call of
\* self.da that ran to its end; a call that raised ends the handler before them
Refreshed(w, raised, t) ==
    IF raised = "none" THEN [w EXCEPT !.df = t, !.view = t] ELSE w

\* update_dataframe_view(aux_df) after a call of self.da that ran to its end
Shown(w, raised, aux_df) ==
    IF raised = "none" THEN [w EXCEPT !.view = aux_df] ELSE w

FinishedLoadingMessage == "Finished loading dataset into dataframe (sorted by most popular)."

\* button_load_dataframe_action: a new DataAnalysis(load_dataset=False), then
\* find_dataset_csv; when a file is found load_csv_dataset,
\* load_dataframe_from_analysis and the sort of self.df
button_load_dataframe_action ==
    /\ IF csv_file = <<>>
       THEN /\ _df' = NoneDf
            /\ csv_path' = "None"
            /\ window' = [window EXCEPT !.da = TRUE]
            /\ last' = Outcome("button_load_dataframe_action", "none",
                               <<NoCsvMessage, LoadErrorText>>, RetStr(LoadErrorText))
       ELSE /\ _df' = LoadedTable(NoneDf, csv_file[1])
            /\ csv_path' = PathFound
            /\ \E sorted \in SortValues(LoadedTable(NoneDf, csv_file[1])) :
                  window' = [window EXCEPT !.da = TRUE, !.df = sorted, !.view = sorted]
            /\ last' = Outcome("button_load_dataframe_action", "none",
                               <<FoundMessage, FoundMessage, FinishedLoadingMessage>>, NoRet)
    /\ UNCHANGED csv_file

\* button_see_actual_dataframe_action: update_dataframe_view(self.df)
button_see_actual_dataframe_action ==
    \/ WindowRaises("button_see_actual_dataframe_action")
    \/ /\ window.da
       /\ window' = [window EXCEPT !.view = window.df]
       /\ last' = Outcome("button_see_actual_dataframe_action", "none", <<>>, NoRet)
       /\ UNCHANGED <<_df, csv_path, csv_file>>

\* button_clean_outliers_duplicates_action: the report is shown; self.df is not
\* assigned
button_clean_outliers_duplicates_action ==
    \/ WindowRaises("button_clean_outliers_duplicates_action")
    \/ /\ window.da
       /\ clean_outliers_and_duplicates
       /\ window' = Shown(window, last'.raised,
                          IF last'.raised = "none" THEN last'.ret.frame ELSE window.view)

\* button_separate_main_genre_action
button_separate_main_genre_action ==
    \/ WindowRaises("button_separate_main_genre_action")
    \/ /\ window.da
       /\ separate_genres
       /\ window' = Refreshed(window, last'.raised, _df')

\* button_add_years_ago_column_action
button_add_years_ago_column_action ==
    \/ WindowRaises("button_add_years_ago_column_action")
    \/ /\ window.da
       /\ add_years_ago_column
       /\ window' = Refreshed(window, last'.raised, _df')

\* what PlotWindow.obtain_da_from_main_window tests: dataanalysis.df, the value
\* of the df getter
GetterValue(t) == IF t.loaded THEN t ELSE NoDataframeFrame

\* isinstance(x, DataFrame) for the values of the df getter
IsDataFrame(x) == x.loaded

RetPlotWindow == [kind |-> "PlotWindow"]
NoPlotWindowMessage == "Couldn't open plot window because dataframe hasn't been loaded yet"

\* button_open_plot_window_action: the window's guard, then PlotWindow(root),
\* obtain_da_from_main_window (which reads the df getter) and create_widgets
button_open_plot_window_action ==
    /\ IF ~window.da
       THEN /\ last' = Outcome("button_open_plot_window_action", "none",
                               <<NoPlotWindowMessage>>, NoRet)
            /\ UNCHANGED window
       ELSE IF IsDataFrame(GetterValue(_df))
       THEN /\ last' = Outcome("button_open_plot_window_action", "none",
                               IF NotLoaded THEN GetterMessages ELSE <<>>, RetPlotWindow)
            /\ window' = [window EXCEPT !.plot_window = TRUE]
       ELSE /\ last' = Outcome("button_open_plot_window_action", "none",
                               <<"Couldn't open plot window because DataAnalysis object hasn't been loaded correctly">>,
                               NoRet)
            /\ UNCHANGED window
    /\ UNCHANGED <<_df, csv_path, csv_file>>

\* button_download_dataframe_action: KaggleDownload().dataset_download()
button_download_dataframe_action == dataset_download /\ UNCHANGED window

InitWindow ==
    /\ csv_file \in {<<>>} \cup {<<rows>> : rows \in Sources}
    /\ _df = NoneDf
    /\ csv_path = "None"
    /\ last = OutcomeFrom(NoneDf, "__init__", "none", <<>>, NoRet)
    /\ window = MainWindowInit

NextWindow ==
    \/ button_download_dataframe_action
    \/ button_load_dataframe_action
    \/ button_see_actual_dataframe_action
    \/ button_clean_outliers_duplicates_action
    \/ button_separate_main_genre_action
    \/ button_add_years_ago_column_action
    \/ button_open_plot_window_action
    \/ RemoveCsv /\ UNCHANGED window

SpecWindow == InitWindow /\ [][NextWindow]_vars

----------------------------------------------------------------------------
(* The cleaning alone, on every table of up to MaxCleanRows rows of CleanPool: *)
(* DataAnalysis(load_dataset=True) on such a file, then the cleaning.          *)

InitClean ==
    /\ csv_file \in {<<rows>> : rows \in SeqsUpTo(CleanPool, MaxCleanRows)}
    /\ _df = read_csv(csv_file[1])
    /\ csv_path = PathFound
    /\ last = OutcomeFrom(NoneDf, "__init__", "none", <<>>, NoRet)
    /\ window = MainWindowInit

NextClean ==
    \/ clean_outliers_and_duplicates /\ UNCHANGED window
    \/ df_deleter /\ UNCHANGED window

SpecClean == InitClean /\ [][NextClean]_vars

----------------------------------------------------------------------------
(* The column transforms alone, on every table of up to MaxTransformRows rows *)
(* of TransformPool: DataAnalysis(load_dataset=True) on such a file, then the *)
(* transforms in any order and any number of times.                           *)

InitTransform ==
    /\ csv_file \in {<<rows>> : rows \in SeqsUpTo(TransformPool, MaxTransformRows)}
    /\ _df = read_csv(csv_file[1])
    /\ csv_path = PathFound
    /\ last = OutcomeFrom(NoneDf, "__init__", "none", <<>>, NoRet)
    /\ window = MainWindowInit

NextTransform ==
    \/ add_years_ago_column /\ UNCHANGED window
    \/ convert_duration_to_minutes /\ UNCHANGED window
    \/ separate_genres /\ UNCHANGED window
    \/ df_deleter /\ UNCHANGED window

SpecTransform == InitTransform /\ [][NextTransform]_vars

----------------------------------------------------------------------------
(* The cleaning and the transforms one after the other, in any order, on every *)
(* table of up to MaxPipelineRows rows of PipelinePool.                        *)

InitPipeline ==
    /\ csv_file \in {<<rows>> : rows \in SeqsUpTo(PipelinePool, MaxPipelineRows)}
    /\ _df = read_csv(csv_file[1])
    /\ csv_path = PathFound
    /\ last = OutcomeFrom(NoneDf, "__init__", "none", <<>>, NoRet)
    /\ window = MainWindowInit

NextPipeline ==
    \/ clean_outliers_and_duplicates /\ UNCHANGED window
    \/ add_years_ago_column /\ UNCHANGED window
    \/ convert_duration_to_minutes /\ UNCHANGED window
    \/ separate_genres /\ UNCHANGED window
    \/ check_num_null_values /\ UNCHANGED window
    \/ df_deleter /\ UNCHANGED window

SpecPipeline == InitPipeline /\ [][NextPipeline]_vars

----------------------------------------------------------------------------
(* The scans alone, on every table of up to MaxScanRows rows of ScanPool: *)
(* DataAnalysis(load_dataset=True) on such a file, then the scans.        *)

InitScan ==
    /\ csv_file \in {<<rows>> : rows \in SeqsUpTo(ScanPool, MaxScanRows)}
    /\ _df = read_csv(csv_file[1])
    /\ csv_path = PathFound
    /\ last = OutcomeFrom(NoneDf, "__init__", "none", <<>>, NoRet)
    /\ window = MainWindowInit

NextScan ==
    \/ show_dataframe_info /\ UNCHANGED window
    \/ summarize_dataframe_statistics /\ UNCHANGED window
    \/ check_num_null_values /\ UNCHANGED window
    \/ check_any_null_values /\ UNCHANGED window
    \/ check_num_unique_values /\ UNCHANGED window
    \/ find_dataset_duration /\ UNCHANGED window
    \/ df_deleter /\ UNCHANGED window

SpecScan == InitScan /\ [][NextScan]_vars

----------------------------------------------------------------------------
(* Names of the calls *)

\* the read-only scans
ScanOps ==
    {"show_dataframe_info", "summarize_dataframe_statistics", "check_num_null_values",
     "check_any_null_values", "check_num_unique_values", "find_dataset_duration"}

\* the calls that begin with check_if_dataframe_loaded
GuardedOps ==
    {"check_if_dataframe_loaded", "__str__", "show_dataframe_info",
     "summarize_dataframe_statistics", "check_num_null_values", "check_any_null_values",
     "check_num_unique_values", "find_dataset_duration", "clean_outliers_and_duplicates",
     "add_years_ago_column", "convert_duration_to_minutes", "separate_genres",
     "plot_most_frequent_genres", "plot_most_frequent_genres_pie",
     "plot_top_genres_evolution", "plot_explicit_songs_evolution"}

\* the public calls that have no guard of their own, load / replace / clear aside
UnguardedOps == {"df_getter", "explain_dataframe_columns"}

----------------------------------------------------------------------------
(* C1 *)

----------------------------------------------------------------------------
(* C2 *)

\* C2 as stated: the df getter fails with DatasetNotLoadedException when no
\* table is present and returns the stored table itself when one is.
C2_GetterRaisesWhenEmpty ==
    last.op = "df_getter"
        => IF last.before.loaded
           THEN last.raised = "none" /\ last.ret = RetFrame(_df)
           ELSE last.raised = "DatasetNotLoadedException"

\* C2 amended: the df getter never raises; with no table present it prints the
\* error and returns a one-cell placeholder frame, and with a table present it
\* returns the stored table itself.
C2_GetterReturnsPlaceholder ==
    last.op = "df_getter"
        => /\ last.raised = "none"
           /\ last.ret = IF _df.loaded THEN RetFrame(_df) ELSE RetFrame(NoDataframeFrame)
           /\ (~_df.loaded => last.printed = GetterMessages)

\* C2 witness: the getter was called on an Empty store and gave the placeholder.
C2_Witness ==
    /\ last.op = "df_getter"
    /\ ~_df.loaded
    /\ last.ret.kind = "DataFrame"
    /\ last.ret.frame = NoDataframeFrame

----------------------------------------------------------------------------
(* C3 *)

\* C3: the df setter called with a table succeeds from either state and the
\* stored table afterwards is exactly the argument.
C3_ReplaceSucceedsFromEitherState ==
    (last.op = "df_setter" /\ last.arg.type = "DataFrame")
        => (last.raised = "none" /\ _df.loaded /\ _df = last.arg.value)

----------------------------------------------------------------------------
(* C4 *)

\* C4 as stated: the df setter called with a value that is no table raises an
\* error (TypeError) to its caller.
C4_NonTableRaises ==
    (last.op = "df_setter" /\ last.arg.type # "DataFrame") => last.raised = "TypeError"

\* C4 amended: the df setter called with a value that is no table raises
\* nothing to its caller: it prints the error, and the stored table (or the
\* Empty state) is unchanged.
C4_NonTableIsPrintedAndIgnored ==
    [][(last'.op = "df_setter" /\ last'.arg.type # "DataFrame")
          => (last'.raised = "none" /\ last'.printed = <<SetterMessage>> /\ _df' = _df)]_vars

\* C4 witness: a non-table was handed to the setter of a Loaded store with rows.
C4_Witness ==
    /\ last.op = "df_setter"
    /\ last.arg.type = "NoneType"
    /\ _df.loaded
    /\ NRows(_df) > 0

----------------------------------------------------------------------------
(* C5 *)

\* C5: the df deleter never fails and always leaves the store Empty, from
\* Empty and from Loaded; a second call right after the first changes nothing.
C5_ClearAlwaysEmpties ==
    [][/\ last'.op = "df_deleter" => (last'.raised = "none" /\ _df' = NoneDf)
       /\ (last.op = "df_deleter" /\ last'.op = "df_deleter")
            => (_df' = _df /\ csv_path' = csv_path /\ csv_file' = csv_file)]_vars

\* C5 witness: the deleter ran on a Loaded store with rows and left it Empty.
C5_Witness ==
    /\ last.op = "df_deleter"
    /\ last.before.loaded
    /\ last.before.rows > 0
    /\ ~_df.loaded

----------------------------------------------------------------------------
(* C6 *)

\* C6: a Loaded store becomes Empty only by the df deleter: no scan, transform,
\* chart, cleaning (also one that removes every row), failed load or setter
\* call makes it Empty.
C6_OnlyClearEmpties ==
    [][(_df.loaded /\ ~_df'.loaded) => last'.op = "df_deleter"]_vars

\* C6 witness: a cleaning removed every row and the store is still Loaded.
C6_Witness ==
    /\ last.op = "clean_outliers_and_duplicates"
    /\ last.before.rows > 0
    /\ _df.loaded
    /\ NRows(_df) = 0

----------------------------------------------------------------------------
(* C7 *)

----------------------------------------------------------------------------
(* C8 *)

\* C8: after a load that found a file, the stored table has exactly the rows
\* and the columns of the file: columns added by earlier transforms and rows
\* removed (or renamed columns) do not carry over.
C8_LoadReplacesWholesale ==
    (last.op = "load_csv_dataset" /\ csv_file # <<>>)
        => /\ _df.loaded
           /\ NRows(_df) = Len(csv_file[1])
           /\ Range(_df.columns) = Range(CsvHeader)
           /\ \A i \in Positions(_df) : _df.data[i] = csv_file[1][i]

\* C8 witness: a load over a table that had been cleaned and had the three
\* derived columns.
C8_Witness ==
    /\ last.op = "load_csv_dataset"
    /\ csv_file # <<>>
    /\ last.before.loaded
    /\ {"years_ago", "subgenres", "duration_minutes"} \subseteq Range(last.before.columns)
    /\ last.before.rows < NRows(_df)

----------------------------------------------------------------------------
(* C9 *)

\* C9: the cleaning removes exactly the rows with a [0,1] column out of range,
\* the year out of range, the popularity out of range, the genre "set()", or
\* equal to an earlier row; every other row is kept, in its order.
C9_RemovesExactlyFlaggedRows ==
    [][(last'.op = "clean_outliers_and_duplicates" /\ last'.raised = "none")
          => LET flagged(i) ==
                     LET row == _df.data[i]
                         out(c, lo, hi) == row[c] # <<>> /\ (row[c][1] < lo \/ row[c][1] > hi)
                     IN  \/ \E c \in Range(columns_to_check) : out(c, 0, 10)
                         \/ out("year", 1900, CurrentYear)
                         \/ out("popularity", 0, 100)
                         \/ row["genre"] = <<SetText>>
                         \/ \E j \in 1..(i - 1) : _df.data[j] = row
             IN  _df'.data = SelectPos(_df.data, {i \in Positions(_df) : ~flagged(i)}, 1)]_vars

----------------------------------------------------------------------------
(* C10 *)

\* C10: the cleaning flags a row for popularity if and only if its popularity
\* is below 0 or above 100; 0 and 100 are not flagged.
C10_PopularityFlaggedIffOutside ==
    [][(last'.op = "clean_outliers_and_duplicates" /\ last'.raised = "none")
          => LET pop(i) == _df.data[i]["popularity"]
                 flagged == {i \in Positions(_df) :
                                pop(i) # <<>> /\ (pop(i)[1] < 0 \/ pop(i)[1] > 100)}
             IN  /\ last'.outliers["popularity"].index = SelectPos(_df.index, flagged, 1)
                 /\ last'.outliers["popularity"].data = SelectPos(_df.data, flagged, 1)]_vars

\* C10 witness: popularity values -5, 50, 105 were cleaned: the rows 1 and 3
\* (labels 0 and 2) were flagged for popularity and the row with 50 stayed.
C10_Witness ==
    /\ last.op = "clean_outliers_and_duplicates"
    /\ last.before.rows = 3
    /\ last.outliers["popularity"].index = <<0, 2>>
    /\ last.outliers["popularity"].data = <<RowPopNeg, RowPopBig>>
    /\ _df.data = <<RowGood>>

----------------------------------------------------------------------------
(* C11 *)

\* C11: of two or more fully equal rows that are no outliers, the cleaning
\* removes every copy but the first: exactly one copy is in the table afterwards.
C11_OneCopyOfEqualRowsRemains ==
    [][(last'.op = "clean_outliers_and_duplicates" /\ last'.raised = "none")
          => \A i \in Positions(_df) :
                LET row == _df.data[i]
                    out(c, lo, hi) == row[c] # <<>> /\ (row[c][1] < lo \/ row[c][1] > hi)
                    outlier == \/ \E c \in Range(columns_to_check) : out(c, 0, 10)
                               \/ out("year", 1900, CurrentYear)
                               \/ out("popularity", 0, 100)
                               \/ row["genre"] = <<SetText>>
                    copies == {j \in Positions(_df) : _df.data[j] = row}
                IN  (~outlier /\ Cardinality(copies) >= 2)
                       => Cardinality({k \in Positions(_df') : _df'.data[k] = row}) = 1]_vars

----------------------------------------------------------------------------
(* C12 *)

\* C12: a cleaning that runs right after a cleaning returns the "nothing found"
\* frame and leaves the table exactly as the first one left it.
C12_SecondCleaningFindsNothing ==
    [][(/\ last.op = "clean_outliers_and_duplicates"
        /\ last.raised = "none"
        /\ last'.op = "clean_outliers_and_duplicates")
          => /\ last'.raised = "none"
             /\ last'.ret = RetFrame(NothingFound)
             /\ _df' = _df]_vars

\* C12 witness: a file of three rows was cleaned down to one row, and a second
\* cleaning of that one row found nothing.
C12_Witness ==
    /\ last.op = "clean_outliers_and_duplicates"
    /\ Len(csv_file[1]) = 3
    /\ last.before.rows = 1
    /\ last.ret = RetFrame(NothingFound)
    /\ NRows(_df) = 1

----------------------------------------------------------------------------
(* C13 *)

\* C13: the report of the cleaning holds every flagged row exactly once, also a
\* row flagged by several checks (popularity and energy, or an outlier that is
\* a duplicate too): its index labels are those of the flagged rows, none twice.
C13_ReportHoldsEachRowOnce ==
    [][(last'.op = "clean_outliers_and_duplicates" /\ last'.raised = "none")
          => LET flagged(i) ==
                     LET row == _df.data[i]
                         out(c, lo, hi) == row[c] # <<>> /\ (row[c][1] < lo \/ row[c][1] > hi)
                     IN  \/ \E c \in Range(columns_to_check) : out(c, 0, 10)
                         \/ out("year", 1900, CurrentYear)
                         \/ out("popularity", 0, 100)
                         \/ row["genre"] = <<SetText>>
                         \/ \E j \in 1..(i - 1) : _df.data[j] = row
                 labels == {_df.index[i] : i \in {j \in Positions(_df) : flagged(j)}}
                 report == last'.ret.frame
             IN  labels # {}
                    => /\ Range(report.index) = labels
                       /\ Len(report.index) = Cardinality(labels)]_vars

----------------------------------------------------------------------------
(* C14 *)

----------------------------------------------------------------------------
(* C15 *)

----------------------------------------------------------------------------
(* C16 *)

\* C16 as stated: convert_duration_to_minutes called on a table that is
\* converted already ends without an error and divides the minutes by 60000
\* again.
C16_SecondConversionDividesAgain ==
    [][(/\ last'.op = "convert_duration_to_minutes"
        /\ _df.loaded
        /\ "duration_minutes" \in Range(_df.columns))
          => /\ last'.raised = "none"
             /\ \A i \in Positions(_df) :
                   _df.data[i]["duration_minutes"] # <<>>
                      => _df'.data[i]["duration_minutes"] = <<0>>]_vars

\* C16 amended: convert_duration_to_minutes called on a table that is converted
\* already is not guarded: it raises KeyError (the column duration_ms is gone)
\* and leaves the table, with its minute values, as it was.
C16_SecondConversionRaisesKeyError ==
    [][(/\ last'.op = "convert_duration_to_minutes"
        /\ _df.loaded
        /\ "duration_minutes" \in Range(_df.columns))
          => /\ last'.raised = "KeyError"
             /\ _df' = _df]_vars

\* C16 witness: a second conversion of a table of two rows was refused.
C16_Witness ==
    /\ last.op = "convert_duration_to_minutes"
    /\ last.raised = "KeyError"
    /\ "duration_minutes" \in Range(last.before.columns)
    /\ NRows(_df) = 2
    /\ _df.data[1]["duration_minutes"] = <<35>>

----------------------------------------------------------------------------
(* C17 *)

\* C17: separate_genres splits every genre text at its first ", " only: the
\* genre is the text before it, the subgenre all the text after it (further
\* separators included); a text without ", " stays whole as the genre and its
\* subgenre is absent (null), not the empty text.
C17_SplitAtFirstSeparatorOnly ==
    [][(/\ last'.op = "separate_genres"
        /\ last'.raised = "none"
        /\ _df.loaded
        /\ "subgenres" \notin Range(_df.columns))
          => \A i \in Positions(_df) :
                LET text == _df.data[i]["genre"][1]
                    seps == {q \in 1..(Len(text) - 1) : text[q] = "," /\ text[q + 1] = " "}
                    main == _df'.data[i]["genre"]
                    sub == _df'.data[i]["subgenres"]
                IN  IF seps = {}
                    THEN main = <<text>> /\ sub = <<>>
                    ELSE /\ main # <<>>
                         /\ sub # <<>>
                         /\ main[1] \o <<",", " ">> \o sub[1] = text
                         /\ \A q \in seps : q > Len(main[1])]_vars

\* C17 witness: "P, R, I" was split into "P" and "R, I", and "P,D" (no
\* separator) stayed whole with no subgenre.
C17_Witness ==
    /\ last.op = "separate_genres"
    /\ last.raised = "none"
    /\ csv_file[1] = <<RowHigh, RowTieEven>>
    /\ NRows(_df) = 2
    /\ _df.data[1]["genre"] = << <<"P">> >>
    /\ _df.data[1]["subgenres"] = << <<"R", ",", " ", "I">> >>
    /\ _df.data[2]["genre"] = << <<"P", ",", "D">> >>
    /\ _df.data[2]["subgenres"] = <<>>

----------------------------------------------------------------------------
(* C18 *)

----------------------------------------------------------------------------
(* C19 *)

\* C19: add_years_ago_column writes, for every row, years_ago = the current
\* year minus the year of the row (null for a null year); no other column
\* changes, no row goes or moves; a second call right after changes nothing.
C19_YearsAgoIsCurrentYearMinusYear ==
    [][/\ (last'.op = "add_years_ago_column" /\ last'.raised = "none")
             => /\ _df'.index = _df.index
                /\ Len(_df'.data) = Len(_df.data)
                /\ _df'.columns = IF "years_ago" \in Range(_df.columns)
                                  THEN _df.columns ELSE _df.columns \o <<"years_ago">>
                /\ \A i \in Positions(_df) :
                      LET old == _df.data[i]
                          new == _df'.data[i]
                      IN  /\ DOMAIN new = DOMAIN old \cup {"years_ago"}
                          /\ \A c \in DOMAIN old \ {"years_ago"} : new[c] = old[c]
                          /\ new["years_ago"] = IF old["year"] = <<>> THEN <<>>
                                                ELSE <<CurrentYear - old["year"][1]>>
       /\ (/\ last.op = "add_years_ago_column"
           /\ last.raised = "none"
           /\ last'.op = "add_years_ago_column")
             => _df' = _df]_vars

\* C19 witness: a second call on years 1900 and (none): 126 years ago and null.
C19_Witness ==
    /\ last.op = "add_years_ago_column"
    /\ last.raised = "none"
    /\ "years_ago" \in Range(last.before.columns)
    /\ csv_file[1] = <<RowLow, RowNoYear>>
    /\ NRows(_df) = 2
    /\ _df.data[1]["years_ago"] = <<126>>
    /\ _df.data[2]["years_ago"] = <<>>

----------------------------------------------------------------------------
(* C20 *)

\* C20: for each of danceability, energy, speechiness, acousticness,
\* instrumentalness, liveness and valence, the cleaning flags a row if and only
\* if the value is below 0.0 or above 1.0 (tenths: below 0 or above 10); the
\* values 0.0 and 1.0 are not flagged.
C20_UnitColumnsFlaggedIffOutside ==
    [][(last'.op = "clean_outliers_and_duplicates" /\ last'.raised = "none")
          => \A c \in {"danceability", "energy", "speechiness", "acousticness",
                       "instrumentalness", "liveness", "valence"} :
                LET v(i) == _df.data[i][c]
                    flagged == {i \in Positions(_df) : v(i) # <<>> /\ (v(i)[1] < 0 \/ v(i)[1] > 10)}
                IN  /\ last'.outliers[c].index = SelectPos(_df.index, flagged, 1)
                    /\ last'.outliers[c].data = SelectPos(_df.data, flagged, 1)]_vars

\* C20 witness: rows with every value 0.0, every value out of range and every
\* value 1.0 were cleaned: the middle row (label 1) was flagged in each of the
\* seven columns and the two boundary rows stayed.
C20_Witness ==
    /\ last.op = "clean_outliers_and_duplicates"
    /\ csv_file[1] = <<RowLow, RowUnitsOut, RowHigh>>
    /\ \A c \in Range(columns_to_check) :
          /\ last.outliers[c].index = <<1>>
          /\ last.outliers[c].data = <<RowUnitsOut>>
    /\ _df.data = <<RowLow, RowHigh>>

----------------------------------------------------------------------------
(* C21 *)

\* C21: the cleaning flags a row for year if and only if its year is below 1900
\* or above the current calendar year; 1900 and the current year are not flagged.
C21_YearFlaggedIffOutside ==
    [][(last'.op = "clean_outliers_and_duplicates" /\ last'.raised = "none")
          => LET year(i) == _df.data[i]["year"]
                 flagged == {i \in Positions(_df) :
                                year(i) # <<>> /\ (year(i)[1] < 1900 \/ year(i)[1] > CurrentYear)}
             IN  /\ last'.outliers["year"].index = SelectPos(_df.index, flagged, 1)
                 /\ last'.outliers["year"].data = SelectPos(_df.data, flagged, 1)]_vars

\* C21 witness: the years 1899 and current + 1 were flagged (labels 0 and 2)
\* and the year 1900 between them stayed.
C21_Witness ==
    /\ last.op = "clean_outliers_and_duplicates"
    /\ csv_file[1] = <<RowYearOld, RowLow, RowYearNew>>
    /\ last.outliers["year"].index = <<0, 2>>
    /\ last.outliers["year"].data = <<RowYearOld, RowYearNew>>
    /\ _df.data = <<RowLow>>

----------------------------------------------------------------------------
(* C27 *)

\* C27: a load that finds no CSV file leaves the store exactly as it was: an
\* Empty store stays Empty, a table loaded before is kept whole.
C27_FailedLoadKeepsStore ==
    [][(last'.op = "load_csv_dataset" /\ csv_file = <<>>)
          => (_df' = _df /\ csv_path' = csv_path)]_vars

\* C27 witness: a load found no file while a table with rows and a derived
\* column was there, and the table is there as before.
C27_Witness ==
    /\ last.op = "load_csv_dataset"
    /\ csv_file = <<>>
    /\ last.raised = "none"
    /\ last.before.loaded
    /\ _df.loaded
    /\ NRows(_df) = 2
    /\ last.before.rows = 2
    /\ "years_ago" \in Range(_df.columns)

----------------------------------------------------------------------------
(* C22 *)

\* C22: check_num_null_values returns the number of null cells of the table:
\* 0 exactly when no cell is null, and one more for the table with any one of
\* its non-null cells made null.
C22_NullCountIsNumberOfNullCells ==
    (last.op = "check_num_null_values" /\ last.raised = "none")
        => /\ last.ret.kind = "value"
           /\ last.ret.value = 0
                 <=> \A i \in Positions(_df) : \A c \in Range(_df.columns) : _df.data[i][c] # <<>>
           /\ \A i \in Positions(_df) : \A c \in Range(_df.columns) :
                 _df.data[i][c] # <<>>
                    => NumNullValues([_df EXCEPT !.data[i][c] = <<>>]) = last.ret.value + 1

\* C22 witness: a table with three null cells in one row and two in the other
\* was counted: 5.
C22_Witness ==
    /\ last.op = "check_num_null_values"
    /\ _df = read_csv(<<RowNull, RowNoYear>>)
    /\ last.ret = RetValue(5)

----------------------------------------------------------------------------
(* C23 *)

\* C23: find_dataset_duration reports the least year, the greatest year and
\* their difference over the year column of the current table; the difference
\* is never negative and is 0 when every row has the same year.
C23_DurationIsMaxMinusMin ==
    (last.op = "find_dataset_duration" /\ last.raised = "none")
        => LET ys == {_df.data[i]["year"][1] :
                         i \in {j \in Positions(_df) : _df.data[j]["year"] # <<>>}}
               v == last.ret.value
           IN  IF ys = {}
               THEN v.start = <<>> /\ v.end = <<>> /\ v.duration = <<>>
               ELSE /\ v.start[1] \in ys
                    /\ \A y \in ys : v.start[1] <= y
                    /\ v.end[1] \in ys
                    /\ \A y \in ys : v.end[1] >= y
                    /\ v.duration[1] = v.end[1] - v.start[1]
                    /\ v.duration[1] >= 0
                    /\ Cardinality(ys) = 1 => v.duration[1] = 0

\* C23 witness: the years current and 1900, in this order: 1900, current, and
\* their difference.
C23_Witness ==
    /\ last.op = "find_dataset_duration"
    /\ _df = read_csv(<<RowHigh, RowLow>>)
    /\ last.ret = RetValue([start |-> <<1900>>, end |-> <<CurrentYear>>,
                            duration |-> <<CurrentYear - 1900>>])

----------------------------------------------------------------------------
(* C26 *)

\* C26: the read-only scans leave the stored table unchanged: the same rows in
\* the same order, the same columns and values, before and after the call.
C26_ScansLeaveTableUnchanged ==
    [][last'.op \in ScanOps => _df' = _df]_vars

\* C26 witness: the statistics of a table with null cells were asked for, and
\* the table is as it was read.
C26_Witness ==
    /\ last.op = "summarize_dataframe_statistics"
    /\ last.raised = "none"
    /\ _df = read_csv(<<RowNull, RowGood>>)
    /\ _df = read_csv(csv_file[1])

----------------------------------------------------------------------------
(* C28 *)

\* C28: separate_genres and the cleaning commute: on a table read from a file,
\* separating the genres and then cleaning gives the table that cleaning and
\* then separating the genres gives.
C28_SeparateAndCleanCommute ==
    (/\ last.op = "clean_outliers_and_duplicates"
     /\ last.raised = "none"
     /\ last.before.columns = CsvHeader \o <<"subgenres">>)
        => _df = SeparatedTable(CleanedTable(read_csv(csv_file[1])))

----------------------------------------------------------------------------
(* C29 *)

\* C29 as stated: convert_duration_to_minutes and the cleaning commute:
\* converting and then cleaning leaves the rows that cleaning and then
\* converting leaves.
C29_ConvertAndCleanCommute ==
    (/\ last.op = "clean_outliers_and_duplicates"
     /\ last.raised = "none"
     /\ last.before.columns = RenameColumn(CsvHeader, "duration_ms", "duration_minutes"))
        => _df.data = ConvertedTable(CleanedTable(read_csv(csv_file[1]))).data

\* C29 amended: converting and then cleaning leaves some of the rows, in their
\* order, that cleaning and then converting leaves, and leaves all of them when
\* no two rows of the table differ in duration_ms only; rows that differ only in
\* durations with the same rounded minutes are duplicates after the conversion.
C29_ConvertThenCleanLeavesNoMore ==
    (/\ last.op = "clean_outliers_and_duplicates"
     /\ last.raised = "none"
     /\ last.before.columns = RenameColumn(CsvHeader, "duration_ms", "duration_minutes"))
        => LET file == csv_file[1]
               other == ConvertedTable(CleanedTable(read_csv(file))).data
               onlyDuration(i, j) ==
                   /\ file[i]["duration_ms"] # file[j]["duration_ms"]
                   /\ \A c \in DOMAIN file[i] \ {"duration_ms"} : file[i][c] = file[j][c]
           IN  /\ \E P \in SUBSET (1..Len(other)) : _df.data = SelectPos(other, P, 1)
               /\ (\A i \in 1..Len(file) : \A j \in 1..Len(file) : ~onlyDuration(i, j))
                     => _df.data = other

\* C29 witness: 210000 ms and 211000 ms of the same song were converted (3.5
\* both) and then cleaned: one row is left, where cleaning first leaves two.
C29_Witness ==
    /\ last.op = "clean_outliers_and_duplicates"
    /\ last.before.columns = RenameColumn(CsvHeader, "duration_ms", "duration_minutes")
    /\ csv_file[1] = <<RowGood, RowGoodLonger>>
    /\ NRows(_df) = 1
    /\ _df.data[1]["duration_minutes"] = <<35>>
    /\ NRows(ConvertedTable(CleanedTable(read_csv(csv_file[1])))) = 2

----------------------------------------------------------------------------
(* C30 *)

\* C30 as stated: add_years_ago_column called after the cleaning gives every row
\* that is left a value with 0 <= years_ago <= current year - 1900.
C30_YearsAgoWithinRange ==
    [][(/\ last.op = "clean_outliers_and_duplicates"
        /\ last.raised = "none"
        /\ last'.op = "add_years_ago_column"
        /\ last'.raised = "none")
          => \A i \in Positions(_df') :
                /\ _df'.data[i]["years_ago"] # <<>>
                /\ _df'.data[i]["years_ago"][1] >= 0
                /\ _df'.data[i]["years_ago"][1] <= CurrentYear - 1900]_vars

\* C30 amended: the cleaning leaves only rows whose year is null or within 1900
\* and the current year; no later transform or scan changes that; so
\* add_years_ago_column, called at any time after the cleaning, gives every row
\* with a year a value with 0 <= years_ago <= current year - 1900 and every row
\* with a null year a null years_ago, and these values stay under the later
\* transforms and scans.
C30_YearsAgoWithinRangeOrNull ==
    [][LET YearOk(row) ==
               row["year"] = <<>> \/ (row["year"][1] >= 1900 /\ row["year"][1] <= CurrentYear)
           AgoOk(row) ==
               /\ "years_ago" \in DOMAIN row
               /\ row["year"] = <<>> <=> row["years_ago"] = <<>>
               /\ row["years_ago"] # <<>>
                     => (row["years_ago"][1] >= 0 /\ row["years_ago"][1] <= CurrentYear - 1900)
           YearsOk(t) == \A i \in Positions(t) : YearOk(t.data[i])
           AgosOk(t) == \A i \in Positions(t) : AgoOk(t.data[i])
       IN  /\ (last'.op = "clean_outliers_and_duplicates" /\ last'.raised = "none")
                 => YearsOk(_df')
           /\ YearsOk(_df) => YearsOk(_df')
           /\ (YearsOk(_df) /\ last'.op = "add_years_ago_column" /\ last'.raised = "none")
                 => AgosOk(_df')
           /\ (YearsOk(_df) /\ AgosOk(_df)) => AgosOk(_df')]_vars

\* C30 witness: a year 1899 and a null year were cleaned, then the years ago
\* were added: the row with the null year is left, with a null years_ago.
C30_Witness ==
    /\ last.op = "add_years_ago_column"
    /\ last.raised = "none"
    /\ csv_file[1] = <<RowYearOld, RowNoYear>>
    /\ NRows(_df) = 1
    /\ _df.data[1]["year"] = <<>>
    /\ _df.data[1]["years_ago"] = <<>>

----------------------------------------------------------------------------
(* C24 *)

\* C24: after any sequence of button actions of the main window, the frame the
\* window holds and shows as the actual dataframe (MainWindow.df) has the rows
\* and the columns of the table of its DataAnalysis object; rows removed by the
\* cleaning are not in it.
C24_WindowTableIsCurrent ==
    (window.da /\ _df.loaded)
        => /\ window.df.columns = _df.columns
           /\ NRows(window.df) = NRows(_df)
           /\ \A row \in Range(window.df.data) \cup Range(_df.data) :
                 Cardinality({i \in Positions(window.df) : window.df.data[i] = row})
                    = Cardinality({i \in Positions(_df) : _df.data[i] = row})

----------------------------------------------------------------------------
(* C25 *)

\* C25: the button that opens the plot window, pressed while the DataAnalysis
\* object holds no table (also after a load that found no file), prints an error
\* and makes no plot window.
C25_NoPlotWindowWithoutTable ==
    [][(last'.op = "button_open_plot_window_action" /\ ~_df.loaded)
          => /\ last'.ret = NoRet
             /\ last'.printed # <<>>
             /\ window'.plot_window = window.plot_window]_vars

====
